---- MODULE Spec2Model ----
(***************************************************************************)
(* Timing-report parser (wxm_bench/timing_parser.py) and multi-run         *)
(* aggregator (warpxm_testing/runner.py).                                  *)
(*                                                                         *)
(* Text is a sequence of lines; a line is a record of the features the     *)
(* three regular expressions look for.  Every numeric field is a sequence  *)
(* of one-character strings, so the regular expressions and float() work   *)
(* on the characters.  Floats are exact rationals [num, den] in lowest     *)
(* terms (binary rounding is not modelled).                                *)
(***************************************************************************)
EXTENDS Integers, Sequences, FiniteSets, TLC

(* ------------------------------ bounds --------------------------------- *)
\* longest generated output, in lines
MaxLines == 4
\* longest generated numeric field, in characters
MaxFieldLen == 4
\* largest num_runs
MaxRuns == 3
\* the greatest number of lines of a text in a series of calls
MaxCallLines == 2
\* the greatest number of aggregates stored
MaxAggregates == 2
\* invocations of cmd_run, and builds in the table when cmd_build is invoked
MaxInvocations == 2
MaxBuilds == 2
\* keys on the path given to config.get
MaxKeys == 2

(* --------------------------- characters -------------------------------- *)
Digit == {"0", "1", "2", "3", "4", "5", "6", "7", "8", "9"}

DigitVal(c) ==
    CASE c = "0" -> 0 [] c = "1" -> 1 [] c = "2" -> 2 [] c = "3" -> 3
      [] c = "4" -> 4 [] c = "5" -> 5 [] c = "6" -> 6 [] c = "7" -> 7
      [] c = "8" -> 8 [] c = "9" -> 9

\* the numeric strings  "1 234.56"  "1,234.56"  "1234.56"  of the docstring
Str_1_234_56 == <<"1", " ", "2", "3", "4", ".", "5", "6">>
Str_1c234_56 == <<"1", ",", "2", "3", "4", ".", "5", "6">>
Str_1234_56 == <<"1", "2", "3", "4", ".", "5", "6">>

Min(a, b) == IF a < b THEN a ELSE b
Abs(a) == IF a < 0 THEN 0 - a ELSE a

RECURSIVE GCD(_, _)
GCD(a, b) == IF b = 0 THEN a ELSE GCD(b, a % b)

RECURSIVE Pow10(_)
Pow10(k) == IF k = 0 THEN 1 ELSE 10 * Pow10(k - 1)

(* ---------------------- floats as exact rationals ---------------------- *)
Rat(n, d) ==
    LET g == GCD(Abs(n), d)
    IN  [num |-> n \div g, den |-> d \div g]

IntF(n) == Rat(n, 1)
RAdd(a, b) == Rat(a.num * b.den + b.num * a.den, a.den * b.den)
RSub(a, b) == Rat(a.num * b.den - b.num * a.den, a.den * b.den)
RMul(a, b) == Rat(a.num * b.num, a.den * b.den)
\* a / n for a positive integer n
RDivInt(a, n) == Rat(a.num, a.den * n)

RECURSIVE RSum(_)
\* sum() of a list of floats
RSum(s) == IF s = <<>> THEN IntF(0) ELSE RAdd(s[1], RSum(Tail(s)))

IsSquare(n) == \E k \in 0..n : k * k = n
IntRoot(n) == CHOOSE k \in 0..n : k * k = n

\* math.sqrt of a non-negative float: the exact root when there is a rational
\* one, otherwise the irrational number named by its radicand
sqrt(a) ==
    IF IsSquare(a.num) /\ IsSquare(a.den)
    THEN Rat(IntRoot(a.num), IntRoot(a.den))
    ELSE [sqrt_of |-> a]

\* Python None, the exceptions, and a regular expression that does not match
None == [tag |-> "None"]
ValueError == [tag |-> "ValueError"]
TypeError == [tag |-> "TypeError"]
KeyError == [tag |-> "KeyError"]
NoMatch == [tag |-> "NoMatch"]

(* ------------------------------ float() -------------------------------- *)
\* positions of character c in s
Positions(s, c) == {i \in 1..Len(s) : s[i] = c}
AllIn(s, Class) == \A i \in 1..Len(s) : s[i] \in Class

RECURSIVE DigitsVal(_)
DigitsVal(s) ==
    IF s = <<>> THEN 0
    ELSE 10 * DigitsVal(SubSeq(s, 1, Len(s) - 1)) + DigitVal(s[Len(s)])

\* the decimal part  digits [ "." digits ]  with at least one digit
DecimalOk(m) ==
    /\ AllIn(m, Digit \cup {"."})
    /\ Cardinality(Positions(m, ".")) <= 1
    /\ \E i \in 1..Len(m) : m[i] \in Digit

DecimalVal(m) ==
    LET dots == Positions(m, ".")
        p == IF dots = {} THEN Len(m) + 1 ELSE CHOOSE i \in dots : TRUE
        ip == SubSeq(m, 1, p - 1)
        fp == SubSeq(m, p + 1, Len(m))
    IN  Rat(DigitsVal(ip \o fp), Pow10(Len(fp)))

\* the exponent part  [+-] digits  with at least one digit
ExponentOk(x) ==
    LET d == IF x # <<>> /\ x[1] \in {"+", "-"} THEN Tail(x) ELSE x
    IN  d # <<>> /\ AllIn(d, Digit)

ExponentVal(x) ==
    LET neg == x[1] = "-"
        d == IF x[1] \in {"+", "-"} THEN Tail(x) ELSE x
    IN  IF neg THEN Rat(1, Pow10(DigitsVal(d))) ELSE IntF(Pow10(DigitsVal(d)))

\* Python float(s) on the strings the parser hands it (digits, ".", and for
\* frame times an exponent): the value, or ValueError
float(s) ==
    LET es == Positions(s, "e")
        p == IF es = {} THEN Len(s) + 1 ELSE CHOOSE i \in es : \A j \in es : i <= j
        m == SubSeq(s, 1, p - 1)
        x == SubSeq(s, p + 1, Len(s))
    IN  IF ~DecimalOk(m) THEN ValueError
        ELSE IF es = {} THEN DecimalVal(m)
        ELSE IF ExponentOk(x) THEN RMul(DecimalVal(m), ExponentVal(x))
        ELSE ValueError

\* s.replace(c, "")
RECURSIVE replace(_, _)
replace(s, c) ==
    IF s = <<>> THEN <<>>
    ELSE IF s[1] = c THEN replace(Tail(s), c)
    ELSE <<s[1]>> \o replace(Tail(s), c)

parse_number_spaces_only(s) == float(replace(s, " "))
\* _parse_number
_parse_number(s) == float(replace(replace(s, " "), ","))

(* ------------------------ lines and patterns --------------------------- *)
(* A line of the output:                                                   *)
(*   marker  the line contains "Timing report"                             *)
(*   total   <<t>> when the line contains "Total time elapsed (ms)" and an *)
(*           "=" (after optional blanks), t being the text after the "=";  *)
(*           <<>> otherwise                                                *)
(*   row     <<r>> when the line is  "| " dots name " | " time " | " pct   *)
(*           " |"  with r.dots the length of the run of dots and r.name    *)
(*           the text after it (no blanks, no "|", no leading dot);        *)
(*           <<>> otherwise                                                *)
(*   frames  the texts D of the line's occurrences of                      *)
(*           "Advanced from frame <digits> to <digits> in D second",       *)
(*           from left to right                                            *)
Line(mk, tot, rw, fr) == [marker |-> mk, total |-> tot, row |-> rw, frames |-> fr]
Row(d, n, t, p) == [dots |-> d, name |-> n, time |-> t, pct |-> p]

\* the end of the longest run of Class characters of s that starts at i
\* (i - 1 when s[i] is not in Class)
RunEnd(s, i, Class) ==
    CHOOSE j \in (i - 1)..Len(s) :
        /\ \A k \in i..j : s[k] \in Class
        /\ j = Len(s) \/ s[j + 1] \notin Class

\* \s*([\d ,]+\.?\d*) matched at the start of t: where the group starts and
\* ends.  \s* takes the leading blanks, and gives the last one back when the
\* group could not start otherwise.
NumberGroup(t) ==
    LET k == RunEnd(t, 1, {" "})
        start == IF k < Len(t) /\ t[k + 1] \in Digit \cup {","} THEN k + 1
                 ELSE IF k >= 1 THEN k
                 ELSE 0
        a == RunEnd(t, start, Digit \cup {" ", ","})
        b == IF a < Len(t) /\ t[a + 1] = "." THEN a + 1 ELSE a
        c == RunEnd(t, b + 1, Digit)
    IN  IF start = 0 THEN NoMatch ELSE [start |-> start, end |-> c]

\* _TOTAL_RE.search(line): group 1, or NoMatch
_TOTAL_RE(line) ==
    IF line.total = <<>> THEN NoMatch
    ELSE LET t == line.total[1]
             g == NumberGroup(t)
         IN  IF g = NoMatch THEN NoMatch
             ELSE [group |-> SubSeq(t, g.start, g.end)]

\* s without its leading and trailing blanks
Trim(s) ==
    LET lead == RunEnd(s, 1, {" "})
        last == IF lead = Len(s) THEN lead
                ELSE CHOOSE j \in (lead + 1)..Len(s) :
                         /\ s[j] # " "
                         /\ \A k \in (j + 1)..Len(s) : s[k] = " "
    IN  SubSeq(s, lead + 1, last)

\* _ROW_RE.match(line): the groups (dots, name, time, percent), or NoMatch
_ROW_RE(line) ==
    IF line.row = <<>> THEN NoMatch
    ELSE LET r == line.row[1]
             \* (\.*)(\S.*?): the dots give one back when nothing follows them
             dots == IF r.name = <<>> /\ r.dots > 0 THEN r.dots - 1 ELSE r.dots
             name == IF r.name = <<>> /\ r.dots > 0 THEN <<".">> ELSE r.name
             g == NumberGroup(r.time)
             pct == Trim(r.pct)
         IN  IF name = <<>> THEN NoMatch
             ELSE IF g = NoMatch THEN NoMatch
             ELSE IF ~AllIn(SubSeq(r.time, g.end + 1, Len(r.time)), {" "}) THEN NoMatch
             ELSE IF pct = <<>> \/ ~AllIn(pct, Digit \cup {"."}) THEN NoMatch
             ELSE [dots |-> dots, name |-> name,
                   time_str |-> SubSeq(r.time, g.start, g.end), pct_str |-> pct]

\* ([\d.]+(?:e[+-]?\d+)?)\s+seconds? on one occurrence's text D
FrameGroup(d) ==
    LET a == RunEnd(d, 1, Digit \cup {"."})
        s == IF a + 1 < Len(d) /\ d[a + 1] = "e" /\ d[a + 2] \in {"+", "-"}
             THEN a + 2 ELSE a + 1
        c == IF a < Len(d) /\ d[a + 1] = "e" THEN RunEnd(d, s + 1, Digit) ELSE a
        e == IF c > s THEN c ELSE a
    IN  IF a = 0 THEN NoMatch
        ELSE IF ~AllIn(SubSeq(d, e + 1, Len(d)), {" "}) THEN NoMatch
        ELSE [group |-> SubSeq(d, 1, e)]

\* _FRAME_RE.search(line): group 1 of the leftmost occurrence that matches
_FRAME_RE(line) ==
    LET hits == {i \in 1..Len(line.frames) : FrameGroup(line.frames[i]) # NoMatch}
    IN  IF hits = {} THEN NoMatch
        ELSE FrameGroup(line.frames[CHOOSE i \in hits : \A j \in hits : i <= j])

(* ------------------------- parse_timing_report ------------------------- *)
\* dots per nesting level
DotsPerLevel == 4

Raised(e) == [kind |-> "raise", exc |-> e]

\* the start initialised to the first line instead of None
last_report_start_from_top(lines) ==
    LET hits == {i \in 1..Len(lines) : lines[i].marker}
    IN  IF hits = {} THEN 1 ELSE CHOOSE i \in hits : \A j \in hits : j <= i

\* the scan stopping at the first marker
first_report_start(lines) ==
    LET hits == {i \in 1..Len(lines) : lines[i].marker}
    IN  IF hits = {} THEN 0 ELSE CHOOSE i \in hits : \A j \in hits : i <= j

\* last_report_start: the index of the last marker line, 0 for None
last_report_start(lines) ==
    LET hits == {i \in 1..Len(lines) : lines[i].marker}
    IN  IF hits = {} THEN 0 ELSE CHOOSE i \in hits : \A j \in hits : j <= i

\* the frame loop run over the last report only
frame_scan_report_only(lines) ==
    IF last_report_start(lines) = 0 THEN lines
    ELSE SubSeq(lines, last_report_start(lines), Len(lines))

\* the lines the frame loop runs over: all of them
frame_scan(lines) == lines

RECURSIVE frame_times(_, _)
\* the frame loop over lines, acc being the list so far: the list, and the
\* exception when float() raises
frame_times(lines, acc) ==
    IF lines = <<>> THEN [times |-> acc, exc |-> None]
    ELSE LET m == _FRAME_RE(lines[1])
             v == float(m.group)
         IN  IF m = NoMatch THEN frame_times(Tail(lines), acc)
             ELSE IF v = ValueError THEN [times |-> acc, exc |-> ValueError]
             ELSE frame_times(Tail(lines), Append(acc, v))

\* one level closed per row, however far the depth drops
truncate_one_level(scope_stack, depth) ==
    IF depth < Len(scope_stack) THEN SubSeq(scope_stack, 1, Len(scope_stack) - 1)
    ELSE scope_stack

\* scope_stack[:depth]
truncate(scope_stack, depth) == SubSeq(scope_stack, 1, Min(depth, Len(scope_stack)))

\* missing ancestors filled with an empty name up to the depth of the row
adjust_padded(scope_stack, depth, name) ==
    Append([i \in 1..depth |-> IF i <= Len(scope_stack) THEN scope_stack[i] ELSE <<>>],
           name)

\* scope_stack = scope_stack[:depth]; scope_stack.append(name)
adjust(scope_stack, depth, name) == Append(truncate(scope_stack, depth), name)

RECURSIVE join(_)
\* "/".join(scope_stack)
join(stack) ==
    IF stack = <<>> THEN <<>>
    ELSE IF Len(stack) = 1 THEN stack[1]
    ELSE stack[1] \o <<"/">> \o join(Tail(stack))

\* an entry replacing the entry of the same path, if there is one
replace_by_path(scopes, entry) ==
    IF \E i \in 1..Len(scopes) : scopes[i].scope = entry.scope
    THEN [i \in 1..Len(scopes) |->
             IF scopes[i].scope = entry.scope THEN entry ELSE scopes[i]]
    ELSE Append(scopes, entry)

\* the entry put in front of the list
scopes_prepend(scopes, entry) == <<entry>> \o scopes

\* scopes.append({...})
scopes_append(scopes, entry) == Append(scopes, entry)

\* the locals of the report loop
LoopStart == [total_ms |-> IntF(0), scopes |-> <<>>, scope_stack |-> <<>>, exc |-> None]

\* one iteration of the report loop without the continue after a total line:
\* the line goes on to the row match
ReportStep_no_continue(st, line) ==
    LET mt == _TOTAL_RE(line)
        mr == _ROW_RE(line)
        total == _parse_number(mt.group)
        depth == mr.dots \div DotsPerLevel
        stack == adjust(st.scope_stack, depth, mr.name)
        elapsed_ms == _parse_number(mr.time_str)
        percent_total == float(mr.pct_str)
        st1 == IF mt = NoMatch THEN st
               ELSE IF total = ValueError THEN [st EXCEPT !.exc = ValueError]
               ELSE [st EXCEPT !.total_ms = total]
    IN  IF st1.exc # None \/ mr = NoMatch THEN st1
        ELSE IF elapsed_ms = ValueError \/ percent_total = ValueError
        THEN [st1 EXCEPT !.scope_stack = stack, !.exc = ValueError]
        ELSE [st1 EXCEPT !.scope_stack = stack,
                         !.scopes = scopes_append(@, [scope |-> join(stack),
                                                      elapsed_ms |-> elapsed_ms,
                                                      percent_total |-> percent_total])]

\* one iteration of the report loop
ReportStep(st, line) ==
    LET mt == _TOTAL_RE(line)
        mr == _ROW_RE(line)
        total == _parse_number(mt.group)
        depth == mr.dots \div DotsPerLevel
        stack == adjust(st.scope_stack, depth, mr.name)
        full_scope == join(stack)
        elapsed_ms == _parse_number(mr.time_str)
        percent_total == float(mr.pct_str)
    IN  IF mt # NoMatch
        THEN IF total = ValueError THEN [st EXCEPT !.exc = ValueError]
             ELSE [st EXCEPT !.total_ms = total]
        ELSE IF mr = NoMatch THEN st
        ELSE IF elapsed_ms = ValueError \/ percent_total = ValueError
        THEN [st EXCEPT !.scope_stack = stack, !.exc = ValueError]
        ELSE [st EXCEPT !.scope_stack = stack,
                        !.scopes = scopes_append(@, [scope |-> full_scope,
                                                     elapsed_ms |-> elapsed_ms,
                                                     percent_total |-> percent_total])]

RECURSIVE ReportLoop(_, _)
\* the report loop over lines, from the locals st, until a line raises
ReportLoop(lines, st) ==
    IF lines = <<>> \/ st.exc # None THEN st
    ELSE ReportLoop(Tail(lines), ReportStep(st, lines[1]))

\* parse_timing_report(output): the snapshot, or the exception raised
parse_timing_report(lines) ==
    LET start == last_report_start(lines)
        ft == frame_times(frame_scan(lines), <<>>)
        st == ReportLoop(SubSeq(lines, start, Len(lines)), LoopStart)
    IN  IF ft.exc # None THEN Raised(ft.exc)
        ELSE IF start = 0
        THEN [kind |-> "snapshot", total_ms |-> IntF(0), scopes |-> <<>>,
              frame_times_s |-> ft.times]
        ELSE IF st.exc # None THEN Raised(st.exc)
        ELSE [kind |-> "snapshot", total_ms |-> st.total_ms, scopes |-> st.scopes,
              frame_times_s |-> ft.times]

(* ------------- parse_timing_report, one call after another ------------- *)
\* the locals (total_ms, scopes, scope_stack, frame_times) before any call
NoCallYet == [st |-> LoopStart, frame_times |-> <<>>]

\* the locals of the previous call taken over
kept_locals(left) == left

\* total_ms = 0.0, scopes = [], frame_times = [], scope_stack = []: every call
\* makes its own, whatever the previous call left behind
new_locals(left) == [st |-> LoopStart, frame_times |-> <<>>]

\* the locals when the frame loop has given ft and the report loop, if the
\* call gets to it, starts at line start with the locals st
locals_after_loops(lines, start, ft, st) ==
    [start |-> start, frames_exc |-> ft.exc, frame_times |-> ft.times,
     st |-> IF ft.exc # None \/ start = 0 THEN st
            ELSE ReportLoop(SubSeq(lines, start, Len(lines)), st)]

\* the locals of a call on lines when it returns or raises
locals_at_return(lines, left) ==
    locals_after_loops(lines, last_report_start(lines),
                       frame_times(frame_scan(lines), new_locals(left).frame_times),
                       new_locals(left).st)

\* what the call returns, or raises, with the locals loc
call_result(loc) ==
    IF loc.frames_exc # None THEN Raised(loc.frames_exc)
    ELSE IF loc.start # 0 /\ loc.st.exc # None THEN Raised(loc.st.exc)
    ELSE [kind |-> "snapshot", total_ms |-> loc.st.total_ms,
          scopes |-> loc.st.scopes, frame_times_s |-> loc.frame_times]

\* what a call on lines gives when the previous call left the locals left
parse_call(lines, left) == call_result(locals_at_return(lines, left))

(* ------------------- run_benchmark_averaged: statistics ---------------- *)
\* the code point of a character of a scope path
CodePoint(c) ==
    CASE c = "." -> 46 [] c = "/" -> 47
      [] c \in Digit -> 48 + DigitVal(c)
      [] c = "A" -> 65 [] c = "B" -> 66 [] c = "C" -> 67 [] c = "D" -> 68
      [] c = "E" -> 69 [] c = "r" -> 114 [] c = "s" -> 115 [] c = "v" -> 118
      [] c = "x" -> 120 [] c = "y" -> 121

RECURSIVE StrLess(_, _)
\* a < b for Python strings
StrLess(a, b) ==
    IF a = <<>> THEN b # <<>>
    ELSE IF b = <<>> THEN FALSE
    ELSE IF a[1] # b[1] THEN CodePoint(a[1]) < CodePoint(b[1])
    ELSE StrLess(Tail(a), Tail(b))

RECURSIVE sorted_descending(_)
\* the strings from the greatest to the least
sorted_descending(names) ==
    IF names = {} THEN <<>>
    ELSE LET m == CHOOSE x \in names : \A y \in names : y = x \/ StrLess(y, x)
         IN  <<m>> \o sorted_descending(names \ {m})

RECURSIVE sorted(_)
\* sorted(a set of strings)
sorted(names) ==
    IF names = {} THEN <<>>
    ELSE LET m == CHOOSE x \in names : \A y \in names : y = x \/ StrLess(x, y)
         IN  <<m>> \o sorted(names \ {m})

IsSuccess(r) == r.success

\* every run counted, failed or not
all_results(results) == results

\* successful = [r for r in results if r["success"]]
successful(results) == SelectSeq(results, IsSuccess)

\* sum(values) / len(values)
mean(values) == RDivInt(RSum(values), Len(values))

SquaredDeviations(values) ==
    [i \in 1..Len(values) |->
        RMul(RSub(values[i], mean(values)), RSub(values[i], mean(values)))]

\* the squared deviations divided by n - 1
sample_stddev(values) ==
    IF Len(values) > 1
    THEN sqrt(RDivInt(RSum(SquaredDeviations(values)), Len(values) - 1))
    ELSE None

\* math.sqrt(sum((t - mean) ** 2 for t in values) / len(values))
\*     if len(values) > 1 else None
stddev(values) ==
    IF Len(values) > 1
    THEN sqrt(RDivInt(RSum(SquaredDeviations(values)), Len(values)))
    ELSE None

\* the paths of the first of the runs only
first_run_scope_names(succ) ==
    {succ[1].timing.scopes[j].scope : j \in 1..Len(succ[1].timing.scopes)}

\* all_scope_names
all_scope_names(succ) ==
    UNION {{succ[i].timing.scopes[j].scope : j \in 1..Len(succ[i].timing.scopes)} :
               i \in 1..Len(succ)}

\* the entries of path name in one snapshot
EntriesOf(scopes, name) == {j \in 1..Len(scopes) : scopes[j].scope = name}

\* the last entry of the path taken
last_entry_elapsed(scopes, name) ==
    scopes[CHOOSE j \in EntriesOf(scopes, name) :
               \A k \in EntriesOf(scopes, name) : k <= j].elapsed_ms

\* the inner loop with its break: the elapsed_ms of the first entry of the path
first_entry_elapsed(scopes, name) ==
    scopes[CHOOSE j \in EntriesOf(scopes, name) :
               \A k \in EntriesOf(scopes, name) : j <= k].elapsed_ms

HasScope(r, name) == EntriesOf(r.timing.scopes, name) # {}

\* a run without the path counted with 0.0
scope_values_zero_filled(succ, name) ==
    [i \in 1..Len(succ) |->
        IF HasScope(succ[i], name)
        THEN first_entry_elapsed(succ[i].timing.scopes, name)
        ELSE IntF(0)]

\* values: one elapsed_ms from each successful run that has the path
scope_values(succ, name) ==
    LET having == SelectSeq(succ, LAMBDA r : HasScope(r, name))
    IN  [i \in 1..Len(having) |-> first_entry_elapsed(having[i].timing.scopes, name)]

\* the stddev of a path left out by the number of successful runs, not by the
\* number of values collected for the path
scope_stats_stddev_by_run_count(succ) ==
    LET names == sorted(all_scope_names(succ))
    IN  [i \in 1..Len(names) |->
            [scope |-> names[i],
             mean_elapsed_ms |-> mean(scope_values(succ, names[i])),
             stddev_elapsed_ms |->
                 IF Len(succ) > 1
                 THEN sqrt(RDivInt(RSum(SquaredDeviations(scope_values(succ, names[i]))),
                                   Len(scope_values(succ, names[i]))))
                 ELSE None]]

\* scope_stats
scope_stats_of(succ) ==
    LET names == sorted(all_scope_names(succ))
    IN  [i \in 1..Len(names) |->
            [scope |-> names[i],
             mean_elapsed_ms |-> mean(scope_values(succ, names[i])),
             stddev_elapsed_ms |-> stddev(scope_values(succ, names[i]))]]

\* the parameters of db.insert_aggregate after conn; none has a default
InsertAggregateParams ==
    {"benchmark_name", "hardware_id", "git_sha", "num_procs", "num_runs",
     "mean_wall_time_s", "stddev_wall_time_s", "scope_stats"}

\* db.insert_aggregate(conn, **kw): the binding of the arguments fails, or one
\* row enters aggregate_results and one row per scope aggregate_scopes
insert_aggregate(results_table, scopes_table, kw) ==
    IF DOMAIN kw # InsertAggregateParams
    THEN [exc |-> TypeError, aggregate_results |-> results_table,
          aggregate_scopes |-> scopes_table, agg_id |-> None]
    ELSE LET id == Len(results_table) + 1
         IN  [exc |-> None,
              aggregate_results |->
                  Append(results_table,
                         [id |-> id, num_runs |-> kw.num_runs,
                          mean_wall_time_s |-> kw.mean_wall_time_s,
                          stddev_wall_time_s |-> kw.stddev_wall_time_s]),
              aggregate_scopes |->
                  scopes_table \o
                      [i \in 1..Len(kw.scope_stats) |->
                          [aggregate_id |-> id, scope |-> kw.scope_stats[i].scope,
                           mean_elapsed_ms |-> kw.scope_stats[i].mean_elapsed_ms,
                           stddev_elapsed_ms |-> kw.scope_stats[i].stddev_elapsed_ms]],
              agg_id |-> [id |-> id]]

(* ------------------------------ cmd_results ---------------------------- *)
\* --limit when the option is not given
DefaultLimit == 20

\* a < b for floats
RLess(a, b) == a.num * b.den < b.num * a.den
\* the float a, or (for the root of a) the value it is the root of
RadicandOrSquare(a) == IF "sqrt_of" \in DOMAIN a THEN a.sqrt_of ELSE RMul(a, a)
\* a <= b for two values that are not negative, floats or roots
LessEq(a, b) == ~RLess(RadicandOrSquare(b), RadicandOrSquare(a))

\* f"{v:.<digits>f}"
format_fixed(v, digits) == [fixed |-> digits, of |-> v]
NA == [text |-> "n/a"]

\* bool(v) for a float or None
truthy(v) == v # None /\ v # IntF(0)

\* db.get_latest_aggregates: ORDER BY id DESC LIMIT limit
get_latest_aggregates(table, limit) ==
    [i \in 1..Min(limit, Len(table)) |-> table[Len(table) + 1 - i]]

\* the rows of aggregate_scopes of one aggregate, in insertion order
ScopesOfAggregate(scopes_table, id) ==
    LET mine(r) == r.aggregate_id = id
    IN  SelectSeq(scopes_table, mine)

\* ORDER BY mean_elapsed_ms DESC: every order of the rows, as a permutation of
\* their indices, in which the means do not increase (SQL leaves ties open)
DescendingByMean(rows) ==
    {f \in [1..Len(rows) -> 1..Len(rows)] :
        /\ \A i, j \in 1..Len(rows) : i # j => f[i] # f[j]
        /\ \A i, j \in 1..Len(rows) :
               i < j => LessEq(rows[f[j]].mean_elapsed_ms, rows[f[i]].mean_elapsed_ms)}

\* the lines cmd_results prints for the scope rows in the order f
scope_lines(rows, f) ==
    [i \in 1..Len(rows) |->
        [scope |-> rows[f[i]].scope,
         mean |-> format_fixed(rows[f[i]].mean_elapsed_ms, 2),
         stddev |-> IF truthy(rows[f[i]].stddev_elapsed_ms)
                    THEN format_fixed(rows[f[i]].stddev_elapsed_ms, 2)
                    ELSE NA]]

\* what cmd_results can print for one aggregate
Blocks(agg, scopes_table) ==
    LET rows == ScopesOfAggregate(scopes_table, agg.id)
    IN  {[id |-> agg.id, runs |-> agg.num_runs,
          mean_wall |-> format_fixed(agg.mean_wall_time_s, 3),
          std_dev |-> IF agg.stddev_wall_time_s # None
                      THEN <<format_fixed(agg.stddev_wall_time_s, 3)>>
                      ELSE <<>>,
          scopes |-> scope_lines(rows, f)] : f \in DescendingByMean(rows)}

RECURSIVE Listings(_, _)
\* what cmd_results can print for the aggregates aggs
Listings(aggs, scopes_table) ==
    IF aggs = <<>> THEN {<<>>}
    ELSE {<<b>> \o rest : b \in Blocks(aggs[1], scopes_table),
                          rest \in Listings(Tail(aggs), scopes_table)}

(* ----------------------------- the outputs ----------------------------- *)
Marker == Line(TRUE, <<>>, <<>>, <<>>)
Total(t) == Line(FALSE, <<t>>, <<>>, <<>>)
RowLine(d, n, t, p) == Line(FALSE, <<>>, <<Row(d, n, t, p)>>, <<>>)
Frames(ds) == Line(FALSE, <<>>, <<>>, ds)

\* the lines the generated outputs are made of
LineSet ==
    { Marker,
      \* "Timing report  Total time elapsed (ms) = 9", on one line
      Line(TRUE, <<<<" ", "9">>>>, <<>>, <<>>),
      Total(<<" ", "5">>),
      \* "| T Total time elapsed (ms) = 7 | 1 | 2 |": the total marker inside
      \* a line of the table-row shape
      Line(FALSE, <<<<" ", "7", " ">>>>, <<Row(0, <<"T">>, <<"1">>, <<"2">>)>>, <<>>),
      \* a total of separators only
      Total(<<" ", ",">>),
      RowLine(0, <<"A">>, <<"1">>, <<"5">>),
      RowLine(0, <<"A">>, <<"7">>, <<"2">>),
      RowLine(4, <<"B">>, <<"2">>, <<"5">>),
      RowLine(9, <<"C">>, <<"3">>, <<"5">>),
      RowLine(0, <<"A", "/", "B">>, <<"4">>, <<"5">>),
      \* a percent with two decimal points
      RowLine(4, <<"B">>, <<"1">>, <<"1", ".", "2", ".", "3">>),
      Frames(<< <<"0", ".", "5">> >>),
      \* two frame messages on one line
      Frames(<< <<"2">>, <<"3">> >>),
      Frames(<< <<"1", ".", "2", ".", "3">> >>) }

\* rows at depths 0,1,2,1,0 named A,B,C,D,E
DepthsExample ==
    << Marker,
       RowLine(0, <<"A">>, <<"1">>, <<"5">>),
       RowLine(4, <<"B">>, <<"1">>, <<"5">>),
       RowLine(8, <<"C">>, <<"1">>, <<"5">>),
       RowLine(4, <<"D">>, <<"1">>, <<"5">>),
       RowLine(0, <<"E">>, <<"1">>, <<"5">>) >>

\* depths 0,1,2,3 and then straight back to 1
DropExample ==
    << Marker,
       RowLine(0, <<"A">>, <<"1">>, <<"5">>),
       RowLine(4, <<"B">>, <<"1">>, <<"5">>),
       RowLine(8, <<"C">>, <<"1">>, <<"5">>),
       RowLine(12, <<"D">>, <<"1">>, <<"5">>),
       RowLine(4, <<"E">>, <<"1">>, <<"5">>) >>

\* a periodic report, frame messages around it, and the final report
TwoReportsExample ==
    << Frames(<< <<"0", ".", "5">> >>),
       Marker,
       Total(<<" ", "5">>),
       RowLine(0, <<"A">>, <<"1">>, <<"5">>),
       Frames(<< <<"1", "e", "-", "1">> >>),
       Marker,
       RowLine(0, <<"B">>, <<"2">>, <<"5">>),
       Frames(<< <<"2">> >>) >>

\* the report of the module docstring
DocExample ==
    << Marker,
       Total(<<" ">> \o Str_1_234_56),
       RowLine(0, <<"r", "/", "s">>, <<"1", "2", "3", ".", "4", "5">>, <<"4", "5", ".", "6", "2">>),
       RowLine(4, <<"v">>, <<"6", "7", ".", "8", "9">>, <<"2", "5", ".", "1", "0">>) >>

ExampleTexts == {DepthsExample, DropExample, TwoReportsExample, DocExample}

Texts == UNION {[1..n -> LineSet] : n \in 0..MaxLines} \cup ExampleTexts

NotCalled == [kind |-> "pending"]

\* the lines of the texts of successive calls
CallLines ==
    { Marker,
      Total(<<" ", "5">>),
      RowLine(0, <<"A">>, <<"1">>, <<"5">>),
      RowLine(4, <<"B">>, <<"2">>, <<"5">>),
      RowLine(4, <<"B">>, <<"1">>, <<"1", ".", "2", ".", "3">>),
      Frames(<< <<"0", ".", "5">> >>) }
CallTexts == UNION {[1..n -> CallLines] : n \in 0..MaxCallLines}

\* what the benchmark prints in the runs of run_benchmark_averaged
ScopeReport(rows) == <<Marker, Total(<<" ", "5", "0">>)>> \o rows
OutX10 == ScopeReport(<<RowLine(0, <<"x">>, <<"1", "0">>, <<"5">>)>>)
OutY20 == ScopeReport(<<RowLine(0, <<"y">>, <<"2", "0">>, <<"5">>)>>)
\* the path x printed twice, with 30 ms and then with 10 ms
OutXX == ScopeReport(<<RowLine(0, <<"x">>, <<"3", "0">>, <<"5">>),
                       RowLine(0, <<"x">>, <<"1", "0">>, <<"2">>)>>)
\* the paths y, x and x/y, in this order
OutYX == ScopeReport(<<RowLine(0, <<"y">>, <<"2", "0">>, <<"5">>),
                       RowLine(0, <<"x">>, <<"1", "0">>, <<"5">>),
                       RowLine(4, <<"y">>, <<"5">>, <<"2">>)>>)
\* a report whose total is a lone comma
OutBadTotal == <<Marker, Total(<<" ", ",">>)>>
RunOutputs == {<<>>, OutX10, OutY20, OutXX, OutYX, OutBadTotal}

\* the wall times a run can take, in seconds
WallTimes == {IntF(2), IntF(4)}

\* how the subprocess ends: exit code 0, another exit code, or no launch
Outcomes == {"exit0", "nonzero", "exception"}

NotReturned == [kind |-> "pending"]

\* a successful run that printed out and took wall seconds
SuccessfulRun(out, wall) ==
    [run_id |-> 0, wall_time_s |-> wall, success |-> TRUE,
     timing |-> parse_timing_report(out), stdout |-> out]
\* the successful runs of the series whose aggregates are stored
StoredSeries ==
    { <<SuccessfulRun(OutX10, IntF(2))>>,
      <<SuccessfulRun(<<>>, IntF(2))>>,
      <<SuccessfulRun(OutX10, IntF(2)), SuccessfulRun(OutX10, IntF(4))>>,
      <<SuccessfulRun(OutX10, IntF(2)), SuccessfulRun(OutXX, IntF(2))>>,
      <<SuccessfulRun(OutX10, IntF(2)), SuccessfulRun(OutYX, IntF(4))>>,
      <<SuccessfulRun(OutYX, IntF(2)), SuccessfulRun(OutY20, IntF(2))>>,
      <<SuccessfulRun(OutXX, IntF(2)), SuccessfulRun(OutYX, IntF(2)),
        SuccessfulRun(OutX10, IntF(2))>> }
NotListed == [kind |-> "pending"]
NotComputed == [kind |-> "pending"]

\* the characters of the generated numeric fields
FieldChars == {"1", "2", " ", ",", "."}
Separators == {" ", ","}
FieldStrings ==
    UNION {[1..n -> FieldChars] : n \in 0..MaxFieldLen}
        \cup {Str_1_234_56, Str_1c234_56, Str_1234_56}

VARIABLES
    \* the text handed to parse_timing_report, and what the call gave
    output, snapshot,
    \* the call before this one (its text and what it gave) and the locals it
    \* left behind
    earlier, left,
    \* a numeric field, a second field that differs from it in separators only,
    \* and what _parse_number gave for the two (<<>> before the calls)
    num_field, num_variant, num_values,
    \* run_benchmark_averaged: its argument num_runs, where it is ("loop",
    \* "done", "raised") and the exception that left it, its list results, its
    \* locals when it calls db.insert_aggregate, and the dict it returns
    num_runs, pc, exc, results, agg_locals, ret,
    \* how the subprocess of each attempt made so far ended
    outcomes,
    \* the tables benchmark_runs, timing_scopes, aggregate_results and
    \* aggregate_scopes
    benchmark_runs, timing_scopes, aggregate_results, aggregate_scopes,
    \* what cmd_results has printed
    listing,
    \* run_benchmark and the files: its arguments input_file and work_dir, the
    \* files and directories that exist, and where the call is ("called",
    \* "returned", "raised")
    input_file, work_dir, files, fs_pc,
    \* the table builds; cmd_run: the build_id it resolved (0 before that), the
    \* git SHA and build type it was invoked at, and how many times it was
    \* invoked
    builds, build_id, git_sha, build_type, invocations,
    \* _resolve and config.get: the namespace args, the table config, the keys
    \* and the default they are called with, and what each of them gave
    args, config, keys, default, resolved, got

parser_vars == <<output, snapshot, earlier, left>>
number_vars == <<num_field, num_variant, num_values>>
db_vars == <<benchmark_runs, timing_scopes, aggregate_results, aggregate_scopes>>
runner_vars == <<num_runs, pc, exc, results, agg_locals, ret, outcomes, db_vars>>
cli_vars == <<listing>>
fs_vars == <<input_file, work_dir, files, fs_pc>>
build_vars == <<builds, build_id, git_sha, build_type, invocations>>
resolve_vars == <<args, config, keys, default, resolved, got>>
vars == <<parser_vars, number_vars, runner_vars, cli_vars, fs_vars, build_vars, resolve_vars>>

FilesIdle == input_file = None /\ work_dir = None /\ files = {} /\ fs_pc = "idle"
BuildsIdle ==
    builds = <<>> /\ build_id = 0 /\ git_sha = "" /\ build_type = "" /\ invocations = 0
ResolveIdle ==
    /\ args = [kind |-> "pending"] /\ config = [kind |-> "pending"] /\ keys = <<>>
    /\ default = [kind |-> "pending"] /\ resolved = [kind |-> "pending"]
    /\ got = [kind |-> "pending"]
NumberIdle == num_field = <<>> /\ num_variant = <<>> /\ num_values = <<>>
ParserIdle ==
    output = <<>> /\ snapshot = NotCalled /\ earlier = NotCalled /\ left = NoCallYet
ResultsIdle == listing = NotListed
RunnerIdle ==
    /\ num_runs = 0 /\ pc = "idle" /\ exc = None /\ results = <<>>
    /\ agg_locals = NotComputed /\ ret = NotReturned /\ outcomes = <<>>
    /\ benchmark_runs = <<>> /\ timing_scopes = <<>>
    /\ aggregate_results = <<>> /\ aggregate_scopes = <<>>

(* ------------------------------ the parser ----------------------------- *)
InitParse ==
    /\ output \in Texts
    /\ snapshot = NotCalled
    /\ earlier = NotCalled
    /\ left = NoCallYet
    /\ NumberIdle
    /\ RunnerIdle
    /\ ResultsIdle
    /\ FilesIdle
    /\ BuildsIdle
    /\ ResolveIdle

\* the call parse_timing_report(output)
Parse ==
    /\ snapshot = NotCalled
    /\ snapshot' = parse_timing_report(output)
    /\ UNCHANGED <<output, earlier, left, number_vars, runner_vars, cli_vars, fs_vars, build_vars, resolve_vars>>

NextParse == Parse

SpecParse == InitParse /\ [][NextParse]_vars

(* ------------------------- a series of calls --------------------------- *)
InitCalls ==
    /\ output \in CallTexts
    /\ snapshot = NotCalled
    /\ earlier = NotCalled
    /\ left = NoCallYet
    /\ NumberIdle
    /\ RunnerIdle
    /\ ResultsIdle
    /\ FilesIdle
    /\ BuildsIdle
    /\ ResolveIdle

\* the call ends with the locals loc
CallEnds(loc) ==
    /\ snapshot' = call_result(loc)
    /\ left' = [st |-> loc.st, frame_times |-> loc.frame_times]

\* the call parse_timing_report(output), after the calls made so far
CallParse ==
    /\ snapshot = NotCalled
    /\ CallEnds(locals_at_return(output, left))
    /\ UNCHANGED <<output, earlier, number_vars, runner_vars, cli_vars, fs_vars, build_vars, resolve_vars>>

\* the caller goes on to the next text
NextText(text) ==
    /\ snapshot # NotCalled
    /\ earlier' = [kind |-> "call", text |-> output, result |-> snapshot]
    /\ output' = text
    /\ snapshot' = NotCalled
    /\ UNCHANGED <<left, number_vars, runner_vars, cli_vars, fs_vars, build_vars, resolve_vars>>

NextCalls ==
    \/ CallParse
    \/ \E text \in CallTexts : NextText(text)

SpecCalls == InitCalls /\ [][NextCalls]_vars

(* --------------------------- numeric fields ---------------------------- *)
InitNumber ==
    /\ num_field \in FieldStrings
    /\ num_variant = num_field
    /\ num_values = <<>>
    /\ ParserIdle
    /\ RunnerIdle
    /\ ResultsIdle
    /\ FilesIdle
    /\ BuildsIdle
    /\ ResolveIdle

\* a separator typed into the second field
InsertSeparator(i, c) ==
    /\ num_values = <<>>
    /\ Len(num_variant) <= Len(num_field)
    /\ i \in 0..Len(num_variant)
    /\ num_variant' = SubSeq(num_variant, 1, i) \o <<c>>
                          \o SubSeq(num_variant, i + 1, Len(num_variant))
    /\ UNCHANGED <<num_field, num_values, parser_vars, runner_vars, cli_vars, fs_vars, build_vars, resolve_vars>>

\* a separator taken out of the second field
DeleteSeparator(i) ==
    /\ num_values = <<>>
    /\ i \in 1..Len(num_variant)
    /\ num_variant[i] \in Separators
    /\ num_variant' = SubSeq(num_variant, 1, i - 1)
                          \o SubSeq(num_variant, i + 1, Len(num_variant))
    /\ UNCHANGED <<num_field, num_values, parser_vars, runner_vars, cli_vars, fs_vars, build_vars, resolve_vars>>

\* the calls _parse_number(num_field) and _parse_number(num_variant)
ParseNumbers ==
    /\ num_values = <<>>
    /\ num_values' = <<_parse_number(num_field), _parse_number(num_variant)>>
    /\ UNCHANGED <<num_field, num_variant, parser_vars, runner_vars, cli_vars, fs_vars, build_vars, resolve_vars>>

NextNumber ==
    \/ \E i \in 0..Len(num_variant), c \in Separators : InsertSeparator(i, c)
    \/ \E i \in 1..Len(num_variant) : DeleteSeparator(i)
    \/ ParseNumbers

SpecNumber == InitNumber /\ [][NextNumber]_vars

(* ------------------------ run_benchmark_averaged ----------------------- *)
Init ==
    /\ num_runs \in 0..MaxRuns
    /\ pc = "loop"
    /\ exc = None
    /\ results = <<>>
    /\ agg_locals = NotComputed
    /\ ret = NotReturned
    /\ outcomes = <<>>
    /\ benchmark_runs = <<>>
    /\ timing_scopes = <<>>
    /\ aggregate_results = <<>>
    /\ aggregate_scopes = <<>>
    /\ ParserIdle
    /\ NumberIdle
    /\ ResultsIdle
    /\ FilesIdle
    \* the argument build_id
    /\ build_id = 1
    /\ builds = <<>> /\ git_sha = "" /\ build_type = "" /\ invocations = 0
    /\ ResolveIdle

\* run_benchmark once the subprocess has ended (success, after wall seconds,
\* out on its stdout) and parse_timing_report has given timing
run_benchmark(success, out, wall, timing) ==
    IF timing.kind = "raise"
    THEN \* insert_run is done, finish_run is not reached
         /\ benchmark_runs' =
                Append(benchmark_runs,
                       [id |-> Len(benchmark_runs) + 1, build_id |-> build_id,
                        finished |-> FALSE,
                        wall_time_s |-> None, success |-> FALSE])
         /\ pc' = "raised"
         /\ exc' = timing.exc
         /\ UNCHANGED <<results, timing_scopes>>
    ELSE /\ benchmark_runs' =
                Append(benchmark_runs,
                       [id |-> Len(benchmark_runs) + 1, build_id |-> build_id,
                        finished |-> TRUE,
                        wall_time_s |-> wall, success |-> success])
         /\ timing_scopes' =
                timing_scopes \o
                    [i \in 1..Len(timing.scopes) |->
                        [run_id |-> Len(benchmark_runs) + 1,
                         scope |-> timing.scopes[i].scope,
                         elapsed_ms |-> timing.scopes[i].elapsed_ms,
                         percent_total |-> timing.scopes[i].percent_total]]
         /\ results' =
                Append(results,
                       [run_id |-> Len(benchmark_runs) + 1, wall_time_s |-> wall,
                        success |-> success, timing |-> timing, stdout |-> out])
         /\ UNCHANGED <<pc, exc>>

\* one pass of the loop: run_benchmark, the subprocess ending as outcome after
\* wall seconds with out on its stdout (nothing when it could not be launched)
RunAttempt(outcome, out, wall) ==
    /\ pc = "loop"
    /\ Len(results) < num_runs
    /\ outcome = "exception" => out = <<>>
    /\ run_benchmark(outcome = "exit0", out, wall, parse_timing_report(out))
    /\ outcomes' = Append(outcomes, outcome)
    /\ UNCHANGED <<num_runs, agg_locals, ret, aggregate_results, aggregate_scopes,
                   parser_vars, number_vars, cli_vars, fs_vars, build_vars, resolve_vars>>

\* the rest of run_benchmark_averaged, after the loop
Aggregate ==
    /\ pc = "loop"
    /\ Len(results) = num_runs
    /\ LET succ == successful(results)
           wall_times == [i \in 1..Len(succ) |-> succ[i].wall_time_s]
           mean_wall == mean(wall_times)
           stddev_wall == stddev(wall_times)
           names == sorted(all_scope_names(succ))
           scope_stats == scope_stats_of(succ)
           call == insert_aggregate(aggregate_results, aggregate_scopes,
                       [benchmark_name |-> "b", hardware_id |-> "hw", git_sha |-> "",
                        num_runs |-> Len(succ), mean_wall_time_s |-> mean_wall,
                        stddev_wall_time_s |-> stddev_wall,
                        scope_stats |-> scope_stats])
       IN  IF succ = <<>>
           THEN /\ ret' = [results |-> results, aggregate_id |-> None]
                /\ pc' = "done"
                /\ UNCHANGED <<exc, agg_locals, aggregate_results, aggregate_scopes>>
           ELSE /\ agg_locals' =
                       [kind |-> "computed", successful |-> succ,
                        mean_wall |-> mean_wall, stddev_wall |-> stddev_wall,
                        values |-> [i \in 1..Len(names) |-> scope_values(succ, names[i])],
                        scope_stats |-> scope_stats]
                /\ aggregate_results' = call.aggregate_results
                /\ aggregate_scopes' = call.aggregate_scopes
                /\ IF call.exc # None
                   THEN pc' = "raised" /\ exc' = call.exc /\ UNCHANGED ret
                   ELSE /\ pc' = "done"
                        /\ ret' = [results |-> results, aggregate_id |-> call.agg_id,
                                   mean_wall_time_s |-> mean_wall,
                                   stddev_wall_time_s |-> stddev_wall,
                                   scope_stats |-> scope_stats]
                        /\ UNCHANGED exc
    /\ UNCHANGED <<num_runs, results, outcomes, benchmark_runs, timing_scopes,
                   parser_vars, number_vars, cli_vars, fs_vars, build_vars, resolve_vars>>

Next ==
    \/ \E outcome \in Outcomes, out \in RunOutputs, wall \in WallTimes :
           RunAttempt(outcome, out, wall)
    \/ Aggregate

Spec == Init /\ [][Next]_vars

(* ------------------------ run_benchmark, the files --------------------- *)
\* the directory of the benchmark inputs and another directory
Dirs == {"bench", "work"}

File(dir, stem, ext) == [dir |-> dir, stem |-> stem, ext |-> ext]

\* what WARPXM may leave in its working directory cwd: the directories
\* meshes, data and log, a generated mesh input and a stray .h5 file
Artifacts(cwd) ==
    {File(cwd, "meshes", ""), File(cwd, "data", ""), File(cwd, "log", ""),
     File(cwd, "mesh", "inp"), File(cwd, "out", "h5")}

\* files that may be there before the call: another benchmark input, a copy
\* left by an earlier run, a data file
Others == {File("bench", "b", "inp"), File("work", "a", "inp"), File("work", "old", "h5")}

\* cwd = work_dir or input_file.parent
cwd_of(input, wd) == IF wd = None THEN input.dir ELSE wd.path

\* local_input = cwd / input_file.name
local_input_of(input, wd) == File(cwd_of(input, wd), input.stem, input.ext)

\* shutil.copy2(input_file, local_input) when the two paths differ
copy_input(fs, input, wd) ==
    IF local_input_of(input, wd) # input
    THEN fs \cup {local_input_of(input, wd)}
    ELSE fs

_cleanup_run_artifacts(fs, cwd) ==
    {f \in fs :
        ~ \/ f.dir = cwd /\ f.ext = "" /\ f.stem \in {"meshes", "data", "log"}
          \/ f.dir = cwd /\ f.ext = "inp"
          \/ f.dir = cwd /\ f.ext = "h5"}

InitFiles ==
    /\ input_file \in {File("bench", "a", ext) : ext \in {"inp", "xml"}}
    /\ work_dir \in {None} \cup {[path |-> d] : d \in Dirs}
    /\ \E others \in SUBSET Others : files = {input_file} \cup others
    /\ fs_pc = "called"
    /\ ParserIdle
    /\ NumberIdle
    /\ RunnerIdle
    /\ ResultsIdle
    /\ BuildsIdle
    /\ ResolveIdle

\* run_benchmark: the input is copied, the subprocess leaves written in cwd,
\* then either parse_timing_report raises or the artifacts are cleaned up
RunBenchmark(written, raises) ==
    /\ fs_pc = "called"
    /\ written \subseteq Artifacts(cwd_of(input_file, work_dir))
    /\ LET after_run == copy_input(files, input_file, work_dir) \cup written
       IN  IF raises
           THEN files' = after_run /\ fs_pc' = "raised"
           ELSE /\ files' = _cleanup_run_artifacts(after_run, cwd_of(input_file, work_dir))
                /\ fs_pc' = "returned"
    /\ UNCHANGED <<input_file, work_dir, parser_vars, number_vars, runner_vars, cli_vars, build_vars, resolve_vars>>

NextFiles ==
    \E cwd \in Dirs :
        \E written \in SUBSET Artifacts(cwd), raises \in BOOLEAN :
            RunBenchmark(written, raises)

SpecFiles == InitFiles /\ [][NextFiles]_vars

(* ------------------------ builds, cmd_build, cmd_run ------------------- *)
Shas == {"s1", "s2"}
BuildTypes == {"Release", "Debug"}

\* db.insert_build: the table with the new row, and its id
insert_build(table, sha, bt, cmake_args) ==
    [builds |-> Append(table, [id |-> Len(table) + 1, git_sha |-> sha,
                               build_type |-> bt, cmake_args |-> cmake_args]),
     lastrowid |-> Len(table) + 1]

\* the latest build of the SHA, whatever its build type
find_build_by_sha(table, sha, bt) ==
    LET rows == {i \in 1..Len(table) : table[i].git_sha = sha}
    IN  IF rows = {} THEN None
        ELSE table[CHOOSE i \in rows : \A j \in rows : table[j].id <= table[i].id]

\* db.find_build: WHERE git_sha = ? AND build_type = ? ORDER BY id DESC LIMIT 1
find_build(table, sha, bt) ==
    LET rows == {i \in 1..Len(table) :
                    table[i].git_sha = sha /\ table[i].build_type = bt}
    IN  IF rows = {} THEN None
        ELSE table[CHOOSE i \in rows : \A j \in rows : table[j].id <= table[i].id]

InitBuilds ==
    /\ BuildsIdle
    /\ ParserIdle
    /\ NumberIdle
    /\ RunnerIdle
    /\ ResultsIdle
    /\ FilesIdle
    /\ ResolveIdle

\* cmd_build of the source tree at sha with build type bt, no extra cmake
\* arguments
cmd_build(sha, bt) ==
    /\ pc # "loop"
    /\ Len(builds) < MaxBuilds
    /\ builds' = insert_build(builds, sha, bt, None).builds
    /\ UNCHANGED <<build_id, git_sha, build_type, invocations,
                   parser_vars, number_vars, runner_vars, cli_vars, fs_vars, resolve_vars>>

\* cmd_run of the source tree at sha with build type bt and n runs, up to its
\* call of run_benchmark_averaged
cmd_run(sha, bt, n) ==
    /\ pc # "loop"
    /\ invocations < MaxInvocations
    /\ LET existing == find_build(builds, sha, bt)
           created == insert_build(builds, sha, bt, None)
       IN  IF existing # None
           THEN build_id' = existing.id /\ UNCHANGED builds
           ELSE build_id' = created.lastrowid /\ builds' = created.builds
    /\ git_sha' = sha
    /\ build_type' = bt
    /\ invocations' = invocations + 1
    /\ num_runs' = n
    /\ pc' = "loop"
    /\ exc' = None
    /\ results' = <<>>
    /\ agg_locals' = NotComputed
    /\ ret' = NotReturned
    /\ UNCHANGED <<outcomes, db_vars, parser_vars, number_vars, cli_vars, fs_vars, resolve_vars>>

NextBuilds ==
    \/ \E sha \in Shas, bt \in BuildTypes : cmd_build(sha, bt)
    \/ \E sha \in Shas, bt \in BuildTypes : cmd_run(sha, bt, 1)
    \/ \E outcome \in {"exit0", "exception"} : RunAttempt(outcome, <<>>, IntF(2))
    \/ Aggregate

SpecBuilds == InitBuilds /\ [][NextBuilds]_vars

(* --------------------------- _resolve, config.get ---------------------- *)
\* Python values: None, 0, 3, "" and tables (dict) of them
Int0 == [tag |-> "int", repr |-> "0"]
Int3 == [tag |-> "int", repr |-> "3"]
StrEmpty == [tag |-> "str", repr |-> ""]
Scalars == {None, Int0, StrEmpty}
Dict(items) == [tag |-> "dict", items |-> items]
Keys == {"run", "num_runs"}
\* the tables with keys among Keys and values among vals
DictsOf(vals) == {Dict(f) : f \in UNION {[S -> vals] : S \in SUBSET Keys}}
Configs == DictsOf(Scalars \cup DictsOf(Scalars)) \cup {Int0}
\* a namespace without the attribute, and one with it
NoAttr == [kind |-> "namespace"]
Namespace(v) == [kind |-> "namespace", attr |-> v]
KeyPaths == UNION {[1..n -> Keys] : n \in 0..MaxKeys}

\* getattr(args, attr, None)
getattr(ns, dflt) == IF "attr" \in DOMAIN ns THEN ns.attr ELSE dflt

\* isinstance(current, dict)
isinstance_dict(current) == current.tag = "dict"

\* current[key]
subscript(current, key) ==
    IF ~isinstance_dict(current) THEN Raised(TypeError)
    ELSE IF key \notin DOMAIN current.items THEN Raised(KeyError)
    ELSE current.items[key]

RECURSIVE get(_, _, _)
\* config.get(config, *keys, default=default), from current on
get(current, ks, dflt) ==
    IF ks = <<>> THEN current
    ELSE IF ~isinstance_dict(current) \/ ks[1] \notin DOMAIN current.items THEN dflt
    ELSE get(subscript(current, ks[1]), Tail(ks), dflt)

\* the CLI value taken only when it is truthy
_resolve_truthy(ns, cfg, ks, dflt) ==
    IF getattr(ns, None) \notin {None, Int0, StrEmpty} THEN getattr(ns, None)
    ELSE IF get(cfg, ks, None) # None THEN get(cfg, ks, None)
    ELSE dflt

_resolve(ns, cfg, ks, dflt) ==
    IF getattr(ns, None) # None THEN getattr(ns, None)
    ELSE IF get(cfg, ks, None) # None THEN get(cfg, ks, None)
    ELSE dflt

InitResolve ==
    /\ args \in {NoAttr} \cup {Namespace(v) : v \in Scalars}
    /\ config \in Configs
    /\ keys \in KeyPaths
    /\ default \in {None, Int3}
    /\ resolved = NotCalled
    /\ got = NotCalled
    /\ ParserIdle
    /\ NumberIdle
    /\ RunnerIdle
    /\ ResultsIdle
    /\ FilesIdle
    /\ BuildsIdle

\* the call _resolve(args, attr, config, *keys, default=default)
Resolve ==
    /\ resolved = NotCalled
    /\ resolved' = [kind |-> "returned", value |-> _resolve(args, config, keys, default)]
    /\ UNCHANGED <<args, config, keys, default, got, parser_vars, number_vars,
                   runner_vars, cli_vars, fs_vars, build_vars>>

\* the call config.get(config, *keys, default=default)
Get ==
    /\ got = NotCalled
    /\ got' = [kind |-> "returned", value |-> get(config, keys, default)]
    /\ UNCHANGED <<args, config, keys, default, resolved, parser_vars, number_vars,
                   runner_vars, cli_vars, fs_vars, build_vars>>

NextResolve == Resolve \/ Get

SpecResolve == InitResolve /\ [][NextResolve]_vars

(* --------------------- stored aggregates, cmd_results ------------------ *)
InitResults ==
    /\ listing = NotListed
    /\ ParserIdle
    /\ NumberIdle
    /\ RunnerIdle
    /\ FilesIdle
    /\ BuildsIdle
    /\ ResolveIdle

\* db.insert_aggregate called with every parameter, for the statistics of the
\* successful runs succ
StoreAggregate(succ) ==
    /\ Len(aggregate_results) < MaxAggregates
    /\ LET wall_times == [i \in 1..Len(succ) |-> succ[i].wall_time_s]
           call == insert_aggregate(aggregate_results, aggregate_scopes,
                       [benchmark_name |-> "b", hardware_id |-> "hw", git_sha |-> "",
                        num_procs |-> 1, num_runs |-> Len(succ),
                        mean_wall_time_s |-> mean(wall_times),
                        stddev_wall_time_s |-> stddev(wall_times),
                        scope_stats |-> scope_stats_of(succ)])
       IN  /\ aggregate_results' = call.aggregate_results
           /\ aggregate_scopes' = call.aggregate_scopes
    /\ UNCHANGED <<num_runs, pc, exc, results, agg_locals, ret, outcomes,
                   benchmark_runs, timing_scopes, listing, parser_vars, number_vars, fs_vars, build_vars, resolve_vars>>

\* cmd_results without --benchmark and --hardware-id
cmd_results ==
    /\ LET aggregates == get_latest_aggregates(aggregate_results, DefaultLimit)
       IN  IF aggregates = <<>>
           THEN listing' = [kind |-> "printed", blocks |-> <<>>]
           ELSE \E blocks \in Listings(aggregates, aggregate_scopes) :
                    listing' = [kind |-> "printed", blocks |-> blocks]
    /\ UNCHANGED <<parser_vars, number_vars, runner_vars, fs_vars, build_vars, resolve_vars>>

NextResults ==
    \/ \E succ \in StoredSeries : StoreAggregate(succ)
    \/ cmd_results

SpecResults == InitResults /\ [][NextResults]_vars

(* ------------------- what the claims say about a text ------------------ *)
Returned == snapshot.kind = "snapshot"
MarkerLines == {i \in 1..Len(output) : output[i].marker}
\* the line of the last marker (only used when there is one)
LastMarker == CHOOSE i \in MarkerLines : \A j \in MarkerLines : j <= i
\* the text from the last marker on
LastReport == SubSeq(output, LastMarker, Len(output))
IsTotalLine(l) == _TOTAL_RE(l) # NoMatch
\* a scope row: a line of the table shape that is not taken as a total line
IsScopeRow(l) == ~IsTotalLine(l) /\ _ROW_RE(l) # NoMatch
ScopeRows(lines) == SelectSeq(lines, IsScopeRow)
HasFrame(l) == _FRAME_RE(l) # NoMatch
Paths == [i \in 1..Len(snapshot.scopes) |-> snapshot.scopes[i].scope]

\* the duration of the leftmost matching frame message of every line
FirstDurations(lines) ==
    LET fl == SelectSeq(lines, HasFrame)
    IN  [i \in 1..Len(fl) |-> float(_FRAME_RE(fl[i]).group)]

RECURSIVE EveryDuration(_)
\* the duration of every matching frame message, line by line, left to right
EveryDuration(lines) ==
    IF lines = <<>> THEN <<>>
    ELSE LET ok(d) == FrameGroup(d) # NoMatch
             ds == SelectSeq(lines[1].frames, ok)
         IN  [i \in 1..Len(ds) |-> float(FrameGroup(ds[i]).group)]
             \o EveryDuration(Tail(lines))

\* C1: parse_timing_report never raises, whatever the text
C1_NeverRaises == snapshot.kind # "raise"

\* C2: without a marker line the snapshot has total_ms = 0.0 and no scopes,
\* total lines and table rows notwithstanding, and frame_times_s still holds
\* the frame durations of the whole text
C2_NoMarkerEmptySnapshot ==
    (Returned /\ MarkerLines = {}) =>
        /\ snapshot.total_ms = IntF(0)
        /\ snapshot.scopes = <<>>
        /\ snapshot.frame_times_s = FirstDurations(output)

C2_Witness ==
    /\ Returned
    /\ MarkerLines = {}
    /\ \E i \in 1..Len(output) : IsTotalLine(output[i])
    /\ \E i \in 1..Len(output) : IsScopeRow(output[i])
    /\ snapshot.frame_times_s # <<>>

\* C3: with several markers only the total lines and scope rows at or after
\* the last marker reach the snapshot: it is the snapshot of the last report
\* alone, it has one entry per scope row of the last report, and total_ms is
\* 0.0 when the last report has no total line
C3_LastReportOnly ==
    (Returned /\ Cardinality(MarkerLines) >= 2) =>
        LET alone == parse_timing_report(LastReport)
        IN  /\ snapshot.scopes = alone.scopes
            /\ snapshot.total_ms = alone.total_ms
            /\ Len(snapshot.scopes) = Len(ScopeRows(LastReport))
            /\ (\A i \in 1..Len(LastReport) : ~IsTotalLine(LastReport[i]))
                   => snapshot.total_ms = IntF(0)

C3_Witness ==
    /\ Returned
    /\ Cardinality(MarkerLines) >= 2
    /\ \E i \in 1..(LastMarker - 1) : IsTotalLine(output[i])
    /\ \E i \in 1..(LastMarker - 1) : IsScopeRow(output[i])
    /\ \A i \in LastMarker..Len(output) : ~IsTotalLine(output[i])
    /\ Len(snapshot.scopes) = 1
    /\ snapshot.total_ms = IntF(0)

\* the first d entries of a stack (all of it when it is shorter)
FirstEntries(stack, d) == [i \in 1..(IF d < Len(stack) THEN d ELSE Len(stack)) |-> stack[i]]
\* the locals of the report loop after the first k lines of the last report
LocalsAfter(k) == ReportLoop(SubSeq(LastReport, 1, k), LoopStart)
\* p is the names of stack with a "/" between neighbours
RECURSIVE IsSlashJoin(_, _)
IsSlashJoin(p, stack) ==
    IF Len(stack) = 1 THEN p = stack[1]
    ELSE LET n == Len(stack[1])
         IN  /\ Len(p) > n + 1
             /\ SubSeq(p, 1, n) = stack[1]
             /\ p[n + 1] = "/"
             /\ IsSlashJoin(SubSeq(p, n + 2, Len(p)), Tail(stack))

\* C4: a scope row at depth d = dots / 4 leaves the ancestor stack equal to the
\* first d entries of the stack before it followed by its name, and its scope
\* is the "/"-join of that stack; depths 0,1,2,1,0 named A..E give
\* A, A/B, A/B/C, A/D, E
C4_StackPaths ==
    (Returned /\ MarkerLines # {}) =>
        /\ \A k \in 1..Len(LastReport) :
               IsScopeRow(LastReport[k]) =>
                   LET r == LastReport[k].row[1]
                       d == r.dots \div 4
                       before == LocalsAfter(k - 1).scope_stack
                       after == LocalsAfter(k)
                   IN  /\ r.name # <<>> => after.scope_stack = Append(FirstEntries(before, d), r.name)
                       /\ IsSlashJoin(snapshot.scopes[Len(after.scopes)].scope, after.scope_stack)
        /\ output = DepthsExample =>
               Paths = << <<"A">>, <<"A", "/", "B">>, <<"A", "/", "B", "/", "C">>,
                          <<"A", "/", "D">>, <<"E">> >>
        /\ output = DropExample => Paths[5] = <<"A", "/", "E">>

C4_Witness ==
    /\ Returned
    /\ output = DropExample
    /\ Len(snapshot.scopes) = 5

C8_EveryFrameMessage == Returned => snapshot.frame_times_s = EveryDuration(output)

\* C8 amended: frame_times_s holds, in line order, the duration of the first
\* frame message of every line of the whole text that has one, wherever the
\* line lies relative to the reports and whether or not there is a marker
C8_FirstFramePerLine == Returned => snapshot.frame_times_s = FirstDurations(output)

C8_Witness ==
    /\ Returned
    /\ output = TwoReportsExample
    /\ snapshot.frame_times_s = << Rat(1, 2), Rat(1, 10), IntF(2) >>

\* C7: _parse_number removes every blank and comma before the conversion and
\* never reads one as a decimal point: two fields that differ only in blanks and
\* commas give the same value (or both no value), a field without "." gives a
\* whole number, and "1 234.56", "1,234.56", "1234.56" give 1234.56
C7_SeparatorsIgnored ==
    num_values # <<>> =>
        /\ num_values[1] = num_values[2]
        /\ (Positions(num_field, ".") = {} /\ num_values[1] # ValueError)
               => num_values[1].den = 1
        /\ num_field \in {Str_1_234_56, Str_1c234_56, Str_1234_56}
               => num_values[1] = Rat(123456, 100)

C7_Witness ==
    /\ num_field = Str_1234_56
    /\ num_variant = Str_1c234_56
    /\ num_values = <<Rat(123456, 100), Rat(123456, 100)>>

(* -------------- what the claims say about run_benchmark_averaged -------- *)
\* the loop has ended and the rest of run_benchmark_averaged has run
AggregateRan == pc # "loop" /\ Len(results) = num_runs
SuccessfulRuns == {i \in 1..Len(results) : results[i].success}
\* the wall times of the successful runs, in run order
SuccessfulWalls ==
    LET ok(r) == r.success
        rs == SelectSeq(results, ok)
    IN  [i \in 1..Len(rs) |-> rs[i].wall_time_s]
Squares(ts) == [i \in 1..Len(ts) |-> RMul(ts[i], ts[i])]
\* the square of a standard deviation
SquareOf(sd) == IF "sqrt_of" \in DOMAIN sd THEN sd.sqrt_of ELSE RMul(sd, sd)

\* the scope rows of the last report of a text, in text order
LastReportRows(text) ==
    LET ms == {i \in 1..Len(text) : text[i].marker}
        last == CHOOSE i \in ms : \A j \in ms : j <= i
    IN  IF ms = {} THEN <<>> ELSE ScopeRows(SubSeq(text, last, Len(text)))
RowElapsed(l) == _parse_number(_ROW_RE(l).time_str)
RowPercent(l) == float(_ROW_RE(l).pct_str)
\* the rows of run i whose path is name, as indices into its snapshot
RowsOfPath(i, name) ==
    {k \in 1..Len(results[i].timing.scopes) : results[i].timing.scopes[k].scope = name}
\* a path that two rows of run i's report reconstruct to
RepeatedPaths(i) ==
    {results[i].timing.scopes[k].scope : k \in 1..Len(results[i].timing.scopes)} \cap
    {name \in all_scope_names(results) : Cardinality(RowsOfPath(i, name)) >= 2}
FirstRowOf(i, name) == CHOOSE k \in RowsOfPath(i, name) : \A m \in RowsOfPath(i, name) : k <= m
LastRowOf(i, name) == CHOOSE k \in RowsOfPath(i, name) : \A m \in RowsOfPath(i, name) : m <= k
\* the value the aggregator collected for path name from run i (a successful
\* run that has the path): values are in run order
CollectedFor(i, name) ==
    LET k == CHOOSE n \in 1..Len(agg_locals.scope_stats) :
                 agg_locals.scope_stats[n].scope = name
        pos == Cardinality({j \in SuccessfulRuns : j <= i /\ RowsOfPath(j, name) # {}})
    IN  agg_locals.values[k][pos]

C9_NoData ==
    (AggregateRan /\ SuccessfulRuns = {}) =>
        /\ pc = "done"
        /\ exc = None
        /\ DOMAIN ret = {"results", "aggregate_id"}
        /\ ret.aggregate_id = None
        /\ ret.results = results
        /\ agg_locals = NotComputed
        /\ aggregate_results = <<>>
        /\ aggregate_scopes = <<>>

C9_Witness ==
    /\ AggregateRan
    /\ num_runs >= 2
    /\ SuccessfulRuns = {}
    /\ ret.aggregate_id = None

\* C10: with n >= 1 successful runs mean_wall_time_s is the sum of their wall
\* times divided by n (failed runs left out), stddev_wall_time_s is None exactly
\* when n = 1 and is otherwise the population standard deviation (squared
\* deviations over n); wall times 2.0 and 4.0 give mean 3.0 and stddev 1.0
C10_WallStatistics ==
    (AggregateRan /\ SuccessfulRuns # {}) =>
        LET ts == SuccessfulWalls
            n == Len(ts)
        IN  /\ agg_locals.kind = "computed"
            /\ RMul(agg_locals.mean_wall, IntF(n)) = RSum(ts)
            /\ agg_locals.stddev_wall = None <=> n = 1
            /\ n > 1 =>
                   RMul(SquareOf(agg_locals.stddev_wall), IntF(n * n))
                       = RSub(RMul(IntF(n), RSum(Squares(ts))), RMul(RSum(ts), RSum(ts)))
            /\ ts = <<IntF(2), IntF(4)>> =>
                   /\ agg_locals.mean_wall = IntF(3)
                   /\ agg_locals.stddev_wall = IntF(1)

C10_Witness ==
    /\ AggregateRan
    /\ num_runs = 3
    /\ SuccessfulWalls = <<IntF(2), IntF(4)>>
    /\ \E i \in 1..Len(results) : ~results[i].success /\ results[i].wall_time_s = IntF(4)
    /\ agg_locals.mean_wall = IntF(3)
    /\ agg_locals.stddev_wall = IntF(1)

\* the paths of the snapshot of run i
PathsOfRun(i) ==
    {results[i].timing.scopes[k].scope : k \in 1..Len(results[i].timing.scopes)}
\* the scope_stats that run_benchmark_averaged has built
Stats == agg_locals.scope_stats
StatsPaths == [n \in 1..Len(Stats) |-> Stats[n].scope]

\* C11: the scope paths of scope_stats are exactly the union of the paths of
\* the snapshots of the successful runs, each with exactly one entry; a path
\* that only snapshots of failed runs have has no entry
C11_ScopeUnion ==
    (AggregateRan /\ SuccessfulRuns # {}) =>
        /\ {Stats[n].scope : n \in 1..Len(Stats)} = UNION {PathsOfRun(i) : i \in SuccessfulRuns}
        /\ \A n, m \in 1..Len(Stats) : n # m => Stats[n].scope # Stats[m].scope
        /\ \A i \in 1..Len(results) : \A name \in PathsOfRun(i) :
               (\A j \in SuccessfulRuns : name \notin PathsOfRun(j))
                   => \A n \in 1..Len(Stats) : Stats[n].scope # name

C11_Witness ==
    /\ AggregateRan
    /\ Cardinality(SuccessfulRuns) = 2
    /\ \E i \in 1..Len(results) :
           ~results[i].success /\ PathsOfRun(i) = {<<"y">>}
    /\ \E i, j \in SuccessfulRuns :
           PathsOfRun(i) = {<<"x">>} /\ PathsOfRun(j) = {}
    /\ StatsPaths = << <<"x">> >>

\* the successful runs whose snapshot has the path name
RunsHaving(name) == {i \in SuccessfulRuns : name \in PathsOfRun(i)}
\* the elapsed_ms run i contributes for the path: that of its first row of it
ElapsedOf(i, name) == results[i].timing.scopes[FirstRowOf(i, name)].elapsed_ms
RECURSIVE ElapsedSum(_, _)
ElapsedSum(S, name) ==
    IF S = {} THEN IntF(0)
    ELSE LET i == CHOOSE i \in S : TRUE
         IN  RAdd(ElapsedOf(i, name), ElapsedSum(S \ {i}, name))
\* what the successful runs printed, in run order
SuccessfulOutputs ==
    LET ok(r) == r.success
        rs == SelectSeq(results, ok)
    IN  [i \in 1..Len(rs) |-> rs[i].stdout]

\* C12: mean_elapsed_ms of a path is the sum of elapsed_ms over the successful
\* runs whose snapshot has the path, divided by the number of these runs; a run
\* without the path adds nothing to the sum and nothing to the count; a run
\* with only x = 10.0 and a run with only y = 20.0 give x 10.0 and y 20.0
C12_MeanOverContributors ==
    (AggregateRan /\ SuccessfulRuns # {}) =>
        /\ \A n \in 1..Len(Stats) :
               LET S == RunsHaving(Stats[n].scope)
               IN  /\ S # {}
                   /\ RMul(Stats[n].mean_elapsed_ms, IntF(Cardinality(S)))
                          = ElapsedSum(S, Stats[n].scope)
        /\ SuccessfulOutputs = <<OutX10, OutY20>> =>
               /\ StatsPaths = << <<"x">>, <<"y">> >>
               /\ Stats[1].mean_elapsed_ms = IntF(10)
               /\ Stats[2].mean_elapsed_ms = IntF(20)

C12_Witness ==
    /\ AggregateRan
    /\ SuccessfulOutputs = <<OutX10, OutY20>>
    /\ Stats[1].mean_elapsed_ms = IntF(10)
    /\ Stats[2].mean_elapsed_ms = IntF(20)

RECURSIVE ElapsedSquares(_, _)
\* the sum of the squares of the values the runs S contribute for a path
ElapsedSquares(S, name) ==
    IF S = {} THEN IntF(0)
    ELSE LET i == CHOOSE i \in S : TRUE
         IN  RAdd(RMul(ElapsedOf(i, name), ElapsedOf(i, name)),
                  ElapsedSquares(S \ {i}, name))

\* C13: stddev_elapsed_ms of a path is None exactly when one successful run
\* has the path, however many runs succeeded; with k >= 2 such runs it is the
\* population standard deviation of their k values (squared deviations over k)
C13_ScopeStddev ==
    (AggregateRan /\ SuccessfulRuns # {}) =>
        \A n \in 1..Len(Stats) :
            LET name == Stats[n].scope
                S == RunsHaving(name)
                k == Cardinality(S)
            IN  /\ Stats[n].stddev_elapsed_ms = None <=> k = 1
                /\ k >= 2 =>
                       RMul(SquareOf(Stats[n].stddev_elapsed_ms), IntF(k * k))
                           = RSub(RMul(IntF(k), ElapsedSquares(S, name)),
                                  RMul(ElapsedSum(S, name), ElapsedSum(S, name)))

C13_Witness ==
    /\ AggregateRan
    /\ SuccessfulOutputs = <<OutXX, OutYX>>
    /\ StatsPaths = << <<"x">>, <<"x", "/", "y">>, <<"y">> >>
    /\ Stats[1].stddev_elapsed_ms = IntF(10)
    /\ Stats[3].stddev_elapsed_ms = None

\* a comes before b in lexicographic order of code points: a is a proper
\* prefix of b, or at the first position where they differ a has the smaller
\* character
LexLess(a, b) ==
    \E k \in 0..Min(Len(a), Len(b)) :
        /\ SubSeq(a, 1, k) = SubSeq(b, 1, k)
        /\ \/ k = Len(a) /\ k < Len(b)
           \/ k < Len(a) /\ k < Len(b) /\ CodePoint(a[k + 1]) < CodePoint(b[k + 1])
Reverse(q) == [i \in 1..Len(q) |-> q[Len(q) + 1 - i]]
\* the runs with the rows of every snapshot in the opposite order
RowsReversed(rs) ==
    [i \in 1..Len(rs) |-> [rs[i] EXCEPT !.timing.scopes = Reverse(@)]]
PathsOfStats(stats) == [n \in 1..Len(stats) |-> stats[n].scope]

\* C14: scope_stats is in strictly increasing lexicographic order of scope
\* path, and the sequence of its paths is the same when the runs are taken in
\* the opposite order and when the rows of every snapshot are
C14_SortedPaths ==
    (AggregateRan /\ SuccessfulRuns # {}) =>
        /\ \A n, m \in 1..Len(Stats) :
               n < m => LexLess(Stats[n].scope, Stats[m].scope)
        /\ PathsOfStats(scope_stats_of(Reverse(agg_locals.successful))) = StatsPaths
        /\ PathsOfStats(scope_stats_of(RowsReversed(agg_locals.successful))) = StatsPaths

C14_Witness ==
    /\ AggregateRan
    /\ SuccessfulOutputs = <<OutYX, OutX10>>
    /\ StatsPaths = << <<"x">>, <<"x", "/", "y">>, <<"y">> >>

\* a line of the table-row shape whose elapsed or percent field float() rejects
MalformedRow(l) ==
    /\ IsScopeRow(l)
    /\ \/ _parse_number(_ROW_RE(l).time_str) = ValueError
       \/ float(_ROW_RE(l).pct_str) = ValueError
WellFormed(l) == ~MalformedRow(l)

\* C15: a line of the last report that has the table-row shape but a field
\* that is no number gives no scope entry and no exception: the call returns
\* what it returns for the text without such lines, total and other rows
\* included
C15_MalformedRowSkipped ==
    (/\ snapshot # NotCalled
     /\ MarkerLines # {}
     /\ \E k \in LastMarker..Len(output) : MalformedRow(output[k])) =>
        LET without == parse_timing_report(SelectSeq(output, WellFormed))
        IN  without.kind = "snapshot" => snapshot = without

\* the path p ends with the name n, as its last component
EndsWithName(p, n) ==
    /\ Len(p) >= Len(n)
    /\ SubSeq(p, Len(p) - Len(n) + 1, Len(p)) = n
    /\ Len(p) > Len(n) => p[Len(p) - Len(n)] = "/"

\* C16: the scopes of a snapshot are in row order: the i-th entry is that of
\* the i-th scope row of the last report (its name, elapsed and percent), so the
\* entry of an earlier row precedes the entry of a later row
C16_RowOrder ==
    (Returned /\ MarkerLines # {}) =>
        LET rows == ScopeRows(LastReport)
        IN  /\ Len(snapshot.scopes) = Len(rows)
            /\ \A i, j \in 1..Len(rows) :
                   i < j =>
                       /\ EndsWithName(snapshot.scopes[i].scope, _ROW_RE(rows[i]).name)
                       /\ snapshot.scopes[i].elapsed_ms = RowElapsed(rows[i])
                       /\ snapshot.scopes[i].percent_total = RowPercent(rows[i])
                       /\ EndsWithName(snapshot.scopes[j].scope, _ROW_RE(rows[j]).name)
                       /\ snapshot.scopes[j].elapsed_ms = RowElapsed(rows[j])
                       /\ snapshot.scopes[j].percent_total = RowPercent(rows[j])

C16_Witness ==
    /\ Returned
    /\ output = DocExample
    /\ Len(snapshot.scopes) = 2
    /\ snapshot.scopes[1].elapsed_ms = Rat(12345, 100)
    /\ snapshot.scopes[2].elapsed_ms = Rat(6789, 100)

\* C17: what a call of parse_timing_report gives depends on its text alone: it
\* is what a first call on the text gives, whatever calls came before and
\* whatever they left behind, and two calls on the same text give the same
C17_PerCallState ==
    snapshot # NotCalled =>
        /\ snapshot = parse_timing_report(output)
        /\ (earlier # NotCalled /\ earlier.text = output) => earlier.result = snapshot

C17_Witness ==
    /\ earlier # NotCalled
    /\ earlier.text = <<Marker, RowLine(0, <<"A">>, <<"1">>, <<"5">>)>>
    /\ left.st.scope_stack = <<<<"B">>>>
    /\ output = <<Marker, RowLine(4, <<"B">>, <<"2">>, <<"5">>)>>
    /\ snapshot.kind = "snapshot"
    /\ Paths = << <<"B">> >>

\* the stored row of the path scope of aggregate id
StoredScope(id, scope) ==
    CHOOSE r \in {aggregate_scopes[i] : i \in 1..Len(aggregate_scopes)} :
        r.aggregate_id = id /\ r.scope = scope

\* C18: an absent stddev stays apart from a stddev of 0.0 down to the listing
\* of cmd_results: a line shows "n/a" only when the stored stddev_elapsed_ms of
\* its scope is absent, and shows the number otherwise, 0.0 included
C18_AbsentDistinguishable ==
    listing # NotListed =>
        \A k \in 1..Len(listing.blocks) :
            \A i \in 1..Len(listing.blocks[k].scopes) :
                LET line == listing.blocks[k].scopes[i]
                    stored == StoredScope(listing.blocks[k].id, line.scope)
                IN  line.stddev = NA <=> stored.stddev_elapsed_ms = None

\* run_benchmark_averaged has ended, by a return or by an exception
Ended == pc \in {"done", "raised"}

\* C19: the attempts are made one after another, each starting only when the
\* record of the one before is finished and returned; the aggregate is
\* computed, and the function returns, only after all num_runs attempts; and a
\* failed attempt does not keep the remaining attempts from being made
C19_AttemptsInSequence ==
    /\ \A i \in 1..Len(benchmark_runs) :
           i < Len(benchmark_runs) => benchmark_runs[i].finished /\ i <= Len(results)
    /\ (agg_locals # NotComputed \/ ret # NotReturned) => Len(results) = num_runs
    /\ Ended =>
           \A i \in 1..Len(benchmark_runs) :
               (~benchmark_runs[i].success /\ i < num_runs) => Len(benchmark_runs) > i

\* C20: every run record run_benchmark has inserted is finished when
\* run_benchmark has ended, with the measured wall time and the success flag,
\* however the subprocess ended and whatever it printed
C20_EveryRunFinished ==
    \A i \in 1..Len(benchmark_runs) :
        /\ benchmark_runs[i].finished
        /\ benchmark_runs[i].wall_time_s \in WallTimes
        /\ i <= Len(results)
        /\ benchmark_runs[i].wall_time_s = results[i].wall_time_s
        /\ benchmark_runs[i].success = results[i].success

\* the snapshot of an empty output
EmptySnapshot ==
    [kind |-> "snapshot", total_ms |-> IntF(0), scopes |-> <<>>, frame_times_s |-> <<>>]

\* C21: a run is recorded as successful exactly when its subprocess was
\* launched and exited with code 0; when the launch raises, run_benchmark
\* returns all the same, with success false, an empty output and the empty
\* snapshot
C21_SuccessIffExitZero ==
    \A i \in 1..Len(outcomes) :
        /\ benchmark_runs[i].success <=> outcomes[i] = "exit0"
        /\ i <= Len(results) => (results[i].success <=> outcomes[i] = "exit0")
        /\ outcomes[i] = "exception" =>
               /\ i <= Len(results)
               /\ ~results[i].success
               /\ results[i].stdout = <<>>
               /\ results[i].timing = EmptySnapshot

\* the rows of aggregate_scopes as scope_stats entries
StoredStats ==
    [i \in 1..Len(aggregate_scopes) |->
        [scope |-> aggregate_scopes[i].scope,
         mean_elapsed_ms |-> aggregate_scopes[i].mean_elapsed_ms,
         stddev_elapsed_ms |-> aggregate_scopes[i].stddev_elapsed_ms]]

\* C22: when at least one attempt succeeded, run_benchmark_averaged inserts
\* exactly one aggregate record, with num_runs the number of successful
\* attempts and with the entries of scope_stats as its scope rows, and returns
\* its id with mean_wall_time_s, stddev_wall_time_s and scope_stats
C22_AggregateInserted ==
    (AggregateRan /\ SuccessfulRuns # {}) =>
        /\ pc = "done"
        /\ Len(aggregate_results) = 1
        /\ aggregate_results[1].num_runs = Cardinality(SuccessfulRuns)
        /\ StoredStats = Stats
        /\ ret # NotReturned
        /\ ret.aggregate_id = [id |-> aggregate_results[1].id]
        /\ ret.mean_wall_time_s = agg_locals.mean_wall
        /\ ret.stddev_wall_time_s = agg_locals.stddev_wall
        /\ ret.scope_stats = Stats

\* C23: run_benchmark never deletes the original benchmark input file: after
\* it returns input_file still exists, whether work_dir is a separate
\* directory, is omitted, or is the input file's own directory
C23_InputKept == fs_pc = "returned" => input_file \in files

\* the depth of the scope row LastReport[k]
DepthOfRow(k) == _ROW_RE(LastReport[k]).dots \div DotsPerLevel
\* the row LastReport[k] arrives when the stack holds fewer names than its depth
DeeperThanStack(k) ==
    IsScopeRow(LastReport[k]) /\ Len(LocalsAfter(k - 1).scope_stack) < DepthOfRow(k)

\* the law of C24 for one scope row l, between the locals before and after it
ShallowRow(l, before, after) ==
    LET d == _ROW_RE(l).dots \div DotsPerLevel
        name == _ROW_RE(l).name
        deeper == Len(before.scope_stack) < d
    IN  /\ Len(after.scope_stack) = Min(d, Len(before.scope_stack)) + 1
        /\ Len(after.scope_stack) <= d + 1
        /\ deeper => after.scope_stack = Append(before.scope_stack, name)
        /\ WellFormed(l) =>
               /\ after.exc = None
               /\ Len(after.scopes) = Len(before.scopes) + 1
               /\ deeper => after.scopes[Len(after.scopes)].scope =
                                join(Append(before.scope_stack, name))

RECURSIVE ShallowRows(_, _)
\* the law holds for every scope row the loop reaches in lines, from before
ShallowRows(lines, before) ==
    \/ lines = <<>>
    \/ before.exc # None
    \/ /\ IsScopeRow(lines[1]) => ShallowRow(lines[1], before, ReportStep(before, lines[1]))
       /\ ShallowRows(Tail(lines), ReportStep(before, lines[1]))

\* C24: a scope row at depth d that arrives when the ancestor stack holds
\* fewer than d names is accepted and gets the path "existing stack + its
\* name"; after any row at depth d the stack length is
\* min(d, previous length) + 1, so it never exceeds d + 1
C24_ShallowStack ==
    (snapshot # NotCalled /\ MarkerLines # {}) => ShallowRows(LastReport, LoopStart)

\* an indented first row, then a row two levels deeper than the stack
C24_Witness ==
    /\ Returned
    /\ MarkerLines # {}
    /\ \E k \in 1..Len(LastReport) :
           DeeperThanStack(k) /\ LocalsAfter(k - 1).scope_stack = <<>>
    /\ \E k \in 1..Len(LastReport) :
           /\ DeeperThanStack(k)
           /\ Len(LocalsAfter(k - 1).scope_stack) = 1
           /\ DepthOfRow(k) = 2
           /\ snapshot.scopes[Len(LocalsAfter(k).scopes)].scope = <<"B", "/", "C">>

\* the total lines of the last report
TotalLines == {k \in 1..Len(LastReport) : IsTotalLine(LastReport[k])}
\* the number on the total line LastReport[k]
TotalOf(k) == _parse_number(_TOTAL_RE(LastReport[k]).group)

RECURSIVE TotalsOnly(_, _)
\* every total line the loop reaches in lines, from before, sets total_ms and
\* leaves scopes and scope_stack as they were
TotalsOnly(lines, before) ==
    \/ lines = <<>>
    \/ before.exc # None
    \/ /\ IsTotalLine(lines[1]) =>
              LET after == ReportStep(before, lines[1])
                  total == _parse_number(_TOTAL_RE(lines[1]).group)
              IN  /\ after.scopes = before.scopes
                  /\ after.scope_stack = before.scope_stack
                  /\ total # ValueError => after.exc = None /\ after.total_ms = total
       /\ TotalsOnly(Tail(lines), ReportStep(before, lines[1]))

\* C25: within the last report a line that contains the total marker with a
\* number is consumed only as a total line: it sets total_ms, gives no scope
\* entry and leaves the ancestor stack alone; with several total lines in the
\* last report, total_ms is the value of the last of them
C25_TotalLineOnly ==
    (snapshot # NotCalled /\ MarkerLines # {}) =>
        /\ TotalsOnly(LastReport, LoopStart)
        /\ (Returned /\ TotalLines # {}) =>
               snapshot.total_ms = TotalOf(CHOOSE k \in TotalLines : \A j \in TotalLines : j <= k)

\* a row, then a total inside a line of the row shape, then another total
C25_Witness ==
    /\ Returned
    /\ MarkerLines # {}
    /\ \E k \in TotalLines :
           /\ _ROW_RE(LastReport[k]) # NoMatch
           /\ LocalsAfter(k - 1).scope_stack # <<>>
           /\ LocalsAfter(k).total_ms = IntF(7)
           /\ \E j \in TotalLines : j > k /\ TotalOf(j) # TotalOf(k)
    /\ snapshot.total_ms = IntF(5)
    /\ Len(snapshot.scopes) = 1

\* the rows of table with the SHA and build type
BuildsFor(table, sha, bt) ==
    {i \in 1..Len(table) : table[i].git_sha = sha /\ table[i].build_type = bt}

\* C26: cmd_run inserts a build record only when no build with the current
\* git SHA and build type exists, and otherwise uses the existing record with
\* the highest id; so over invocations at one SHA and build type the build
\* records of the pair grow by at most one, on the first invocation, and
\* every run references a build with that SHA and build type
C26_FindOrCreate ==
    [][/\ invocations' = invocations + 1 =>
              LET had == BuildsFor(builds, git_sha', build_type')
              IN  /\ had = {} =>
                         /\ Len(builds') = Len(builds) + 1
                         /\ SubSeq(builds', 1, Len(builds)) = builds
                         /\ BuildsFor(builds', git_sha', build_type') = {Len(builds')}
                         /\ build_id' = builds'[Len(builds')].id
                  /\ had # {} =>
                         /\ builds' = builds
                         /\ \E i \in had : /\ build_id' = builds[i].id
                                            /\ \A j \in had : builds[j].id <= build_id'
       /\ Len(benchmark_runs') > Len(benchmark_runs) =>
              /\ builds' = builds
              /\ \E i \in BuildsFor(builds, git_sha, build_type) :
                     benchmark_runs'[Len(benchmark_runs')].build_id = builds[i].id
      ]_vars

\* two builds of one SHA and build type, and two invocations of cmd_run at
\* them whose runs both reference the later build
C26_Witness ==
    /\ invocations = 2
    /\ Len(builds) = 2
    /\ BuildsFor(builds, git_sha, build_type) = {1, 2}
    /\ Len(benchmark_runs) = 2
    /\ \A i \in 1..2 : benchmark_runs[i].build_id = 2

RECURSIVE Walk(_, _)
\* the value at the path ks below c, when every key on the path is present in
\* a table
Walk(c, ks) ==
    IF ks = <<>> THEN [present |-> TRUE, value |-> c]
    ELSE IF c.tag = "dict" /\ ks[1] \in DOMAIN c.items
    THEN Walk(c.items[ks[1]], Tail(ks))
    ELSE [present |-> FALSE]
\* the value of the attribute, None when args has none
CliValue == IF args = NoAttr THEN None ELSE args.attr

\* C27: _resolve returns the CLI value whenever it is not None (0 and ""
\* included), otherwise the config value at the nested keys whenever that is
\* present and not None, otherwise the default; config.get returns its
\* default, without raising, when a key on the path is missing or an
\* intermediate value is not a table
C27_Precedence ==
    /\ resolved # NotCalled =>
           resolved.value =
               IF CliValue # None THEN CliValue
               ELSE IF Walk(config, keys).present /\ Walk(config, keys).value # None
               THEN Walk(config, keys).value
               ELSE default
    /\ got # NotCalled =>
           /\ got.value \notin {Raised(TypeError), Raised(KeyError)}
           /\ got.value = IF Walk(config, keys).present THEN Walk(config, keys).value
                          ELSE default

\* a CLI value of 0 wins over a config value and a default, and config.get
\* gives the default for a path through a value that is no table
C27_Witness ==
    /\ resolved # NotCalled
    /\ got # NotCalled
    /\ CliValue = Int0
    /\ resolved.value = Int0
    /\ default = Int3
    /\ Len(keys) = 2
    /\ config.tag = "dict"
    /\ keys[1] \in DOMAIN config.items
    /\ config.items[keys[1]] = StrEmpty
    /\ got.value = Int3
====
